---------------------------- MODULE Spec2Model ----------------------------
(***************************************************************************)
(* A model of the SECS/GEM log analyser (src/log_analyzer.py).  A log file *)
(* is a sequence of text lines; parse_log_file turns it into a DataFrame,  *)
(* clean_and_enrich_data enriches it, and the analysers are functions of   *)
(* the enriched DataFrame.  Text is modelled by TLA+ strings, character by *)
(* character: Len, SubSeq and \o work on strings in TLC.                   *)
(***************************************************************************)
EXTENDS Integers, Sequences, FiniteSets, TLC

VARIABLES lines, df, pc, out
vars == <<lines, df, pc, out>>

-----------------------------------------------------------------------------
(* Characters and strings                                                  *)

Ch(s, i) == SubSeq(s, i, i)

DigitStr == "0123456789"
UpperStr == "ABCDEFGHIJKLMNOPQRSTUVWXYZ"
LowerStr == "abcdefghijklmnopqrstuvwxyz"

CharsOf(s) == {Ch(s, i) : i \in 1..Len(s)}

Digits == CharsOf(DigitStr)
\* \w of Python's re on ASCII text
WordChars == Digits \cup CharsOf(UpperStr) \cup CharsOf(LowerStr) \cup {"_"}
\* \s, and what str.strip() removes, on the characters a line can hold
Whitespace == {" ", "\t"}

DigitVal == [c \in Digits |-> (CHOOSE i \in 1..10 : Ch(DigitStr, i) = c) - 1]
LowerOf == [c \in CharsOf(UpperStr) |->
              Ch(LowerStr, CHOOSE i \in 1..26 : Ch(UpperStr, i) = c)]

\* str.lower(), by halves
RECURSIVE Lower(_)
Lower(s) ==
    IF s = "" THEN ""
    ELSE IF Len(s) = 1 THEN (IF s \in DOMAIN LowerOf THEN LowerOf[s] ELSE s)
    ELSE LET h == Len(s) \div 2
         IN  Lower(SubSeq(s, 1, h)) \o Lower(SubSeq(s, h + 1, Len(s)))

\* the least element of a non-empty set of positions
First(S) == CHOOSE i \in S : \A j \in S : i <= j

\* TLC evaluates the body of a function constructor anew at every application;
\* these give the same function as a stored tuple and as a stored table
AsTuple(f) == f \o <<>>
AsTable(f) == f @@ <<>>

\* the literal lit occurs in s at position i
StartsAt(s, i, lit) ==
    /\ i >= 1
    /\ i + Len(lit) - 1 <= Len(s)
    /\ SubSeq(s, i, i + Len(lit) - 1) = lit

\* re.search of a literal: str.contains(lit)
Contains(s, lit) == \E i \in 1..(Len(s) - Len(lit) + 1) : StartsAt(s, i, lit)

\* str.contains(lit, case=False)
ContainsNoCase(s, lit) == Contains(Lower(s), Lower(lit))

\* the position after the longest run of characters of class cls that starts at i
RECURSIVE RunEnd(_, _, _)
RunEnd(s, i, cls) ==
    IF i <= Len(s) /\ Ch(s, i) \in cls THEN RunEnd(s, i + 1, cls) ELSE i

RECURSIVE LStrip(_, _)
LStrip(s, cls) == IF s # "" /\ Ch(s, 1) \in cls THEN LStrip(Tail(s), cls) ELSE s

RECURSIVE RStrip(_, _)
RStrip(s, cls) ==
    IF s # "" /\ Ch(s, Len(s)) \in cls THEN RStrip(SubSeq(s, 1, Len(s) - 1), cls)
    ELSE s

\* str.strip() and str.strip('"')
Strip(s, cls) == RStrip(LStrip(s, cls), cls)

\* the value of a string of decimal digits
RECURSIVE Num(_)
Num(s) == IF s = "" THEN 0
          ELSE 10 * Num(SubSeq(s, 1, Len(s) - 1)) + DigitVal[Ch(s, Len(s))]

AllIn(s, cls) == \A i \in 1..Len(s) : Ch(s, i) \in cls

\* a missing value (NaN, None) is the empty tuple, a present value v is <<v>>
NaN == <<>>
Some(v) == <<v>>
IsNull(c) == c = NaN
NotNull(c) == c # NaN
Val(c) == c[1]

-----------------------------------------------------------------------------
(* parse_log_file: the line grammar and the key=value split                *)

\* \d{4}/\d{2}/\d{2}\s\d{2}:\d{2}:\d{2}\.\d{6} at the start of s
TimestampLen == 26
TimestampDigitAt == {1, 2, 3, 4, 6, 7, 9, 10, 12, 13, 15, 16, 18, 19,
                     21, 22, 23, 24, 25, 26}
TimestampOk(s) ==
    /\ Len(s) >= TimestampLen
    /\ \A i \in TimestampDigitAt : Ch(s, i) \in Digits
    /\ Ch(s, 5) = "/" /\ Ch(s, 8) = "/"
    /\ Ch(s, 11) \in Whitespace
    /\ Ch(s, 14) = ":" /\ Ch(s, 17) = ":"
    /\ Ch(s, 20) = "."

\* the position of the first "]" at or after i (Len(s) + 1 when there is none):
\* where the run [^\]]+ ends
RECURSIVE BracketEnd(_, _)
BracketEnd(s, i) ==
    IF i <= Len(s) /\ Ch(s, i) # "]" THEN BracketEnd(s, i + 1) ELSE i

\* log_pattern.match(s): ^<timestamp>,\[<log_type>\],<details>$
LogPatternMatches(s) ==
    /\ TimestampOk(s)
    /\ StartsAt(s, TimestampLen + 1, ",[")
    /\ LET e == BracketEnd(s, TimestampLen + 3)
       IN  e > TimestampLen + 3 /\ StartsAt(s, e, "],")

\* match.groupdict()
GroupDict(s) ==
    LET e == BracketEnd(s, TimestampLen + 3)
    IN  [timestamp |-> SubSeq(s, 1, TimestampLen),
         log_type  |-> SubSeq(s, TimestampLen + 3, e - 1),
         details   |-> SubSeq(s, e + 2, Len(s))]

\* \w+= matches at position j of s
KeyAt(s, j) ==
    /\ j <= Len(s)
    /\ Ch(s, j) \in WordChars
    /\ LET e == RunEnd(s, j, WordChars) IN e <= Len(s) /\ Ch(s, e) = "="

\* the leftmost match of \w+= at or after j, 0 when there is none: a run of
\* word characters either ends in "=" and matches from its first character,
\* or holds no match at all
RECURSIVE FindKey(_, _)
FindKey(s, j) ==
    IF j > Len(s) THEN 0
    ELSE IF Ch(s, j) \notin WordChars THEN FindKey(s, j + 1)
    ELSE IF KeyAt(s, j) THEN j
    ELSE FindKey(s, RunEnd(s, j, WordChars))

\* re.split(r'(\w+=)', s)[1:] zipped into (key, value) pairs, scanning from i;
\* a key keeps its "=" here, as the separators re.split returns do
RECURSIVE SplitPairs(_, _)
SplitPairs(s, i) ==
    LET k == FindKey(s, i)
    IN  IF k = 0 THEN <<>>
        ELSE LET e   == RunEnd(s, k, WordChars)
                 nxt == FindKey(s, e + 1)
                 fin == IF nxt = 0 THEN Len(s) ELSE nxt - 1
             IN  <<[key |-> SubSeq(s, k, e), value |-> SubSeq(s, e + 1, fin)]>>
                   \o SplitPairs(s, e + 1)

\* k.replace('=', '')
RECURSIVE RemoveEq(_)
RemoveEq(s) ==
    IF s = "" THEN ""
    ELSE (IF Ch(s, 1) = "=" THEN "" ELSE Ch(s, 1)) \o RemoveEq(Tail(s))

\* dict(zip(pairs[0::2], pairs[1::2])) keeps the last value of a repeated key;
\* then each key loses its "=" and each value is stripped
CleanedDict(pairs) ==
    LET keys  == {pairs[i].key : i \in DOMAIN pairs}
        last(k) == CHOOSE i \in DOMAIN pairs :
                      /\ pairs[i].key = k
                      /\ \A j \in DOMAIN pairs : pairs[j].key = k => j <= i
        dict  == [k \in keys |-> pairs[last(k)].value]
    IN  AsTable([k \in {RemoveEq(x) : x \in keys} |->
                    LET x == CHOOSE y \in keys : RemoveEq(y) = k
                    IN  Strip(Strip(dict[x], Whitespace), {"\""})])

\* details_cleaned
DetailsCleaned(details) == CleanedDict(SplitPairs(details, 1))

\* log_entry g after update(d) and del log_entry['details']
Updated(g, d) ==
    AsTable([k \in (DOMAIN g \cup DOMAIN d) \ {"details"} |->
                IF k \in DOMAIN d THEN d[k] ELSE g[k]])

\* the log_entry of a line that matches
LogEntry(s) == Updated(GroupDict(s), DetailsCleaned(GroupDict(s).details))

\* parsed_data: one log_entry per line that matches, in line order
RECURSIVE ParsedData(_)
ParsedData(ls) ==
    IF ls = <<>> THEN <<>>
    ELSE LET s == Strip(Head(ls), Whitespace)
         IN  (IF LogPatternMatches(s) THEN <<LogEntry(s)>> ELSE <<>>)
               \o ParsedData(Tail(ls))

-----------------------------------------------------------------------------
(* DataFrames: a set of column names and a sequence of rows; a row has its *)
(* index label (idx, the position it was created at, from 0) and one cell  *)
(* per column                                                              *)

EmptyFrame == [cols |-> {}, rows |-> <<>>]

\* pd.DataFrame(parsed_data): the union of the keys, NaN where a key is absent
DataFrame(parsed) ==
    LET cols == UNION {DOMAIN parsed[i] : i \in DOMAIN parsed}
    IN  [cols |-> cols,
         rows |-> AsTuple([i \in DOMAIN parsed |->
                     [idx |-> i - 1,
                      c   |-> AsTable([k \in cols |->
                                 IF k \in DOMAIN parsed[i] THEN Some(parsed[i][k])
                                 ELSE NaN])]])]

\* df[name] as a sequence of cells
Col(d, name) == AsTuple([i \in DOMAIN d.rows |-> d.rows[i].c[name]])

\* df[name] = cells
SetCol(d, name, cells) ==
    [cols |-> d.cols \cup {name},
     rows |-> AsTuple([i \in DOMAIN d.rows |->
                 [idx |-> d.rows[i].idx,
                  c   |-> AsTable([k \in d.cols \cup {name} |->
                             IF k = name THEN cells[i] ELSE d.rows[i].c[k]])]])]

\* Series.ffill(): each null takes the nearest non-null before it
RECURSIVE FFill(_)
FFill(cells) ==
    IF Len(cells) <= 1 THEN cells
    ELSE LET front == FFill(SubSeq(cells, 1, Len(cells) - 1))
             x     == cells[Len(cells)]
         IN  Append(front, IF IsNull(x) THEN front[Len(front)] ELSE x)

\* Series.bfill(): each null takes the nearest non-null after it
RECURSIVE BFill(_)
BFill(cells) ==
    IF Len(cells) <= 1 THEN cells
    ELSE LET rest == BFill(Tail(cells))
             x    == Head(cells)
         IN  <<IF IsNull(x) THEN Head(rest) ELSE x>> \o rest

-----------------------------------------------------------------------------
(* clean_and_enrich_data: conversions and the patterns run on Message      *)

\* days from 1970-01-01 to the civil date y-m-d (proleptic Gregorian)
DaysFromCivil(y, m, d) ==
    LET yy  == IF m <= 2 THEN y - 1 ELSE y
        era == yy \div 400
        yoe == yy - era * 400
        mp  == IF m > 2 THEN m - 3 ELSE m + 9
        doy == (153 * mp + 2) \div 5 + d - 1
        doe == yoe * 365 + yoe \div 4 - yoe \div 100 + doy
    IN  era * 146097 + doe - 719468

\* pd.to_datetime of a "YYYY/MM/DD HH:MM:SS.ffffff" string: a Timestamp is
\* <<days, seconds of the day, microseconds>>, ordered lexicographically
ToDatetime(s) ==
    <<DaysFromCivil(Num(SubSeq(s, 1, 4)), Num(SubSeq(s, 6, 7)), Num(SubSeq(s, 9, 10))),
      Num(SubSeq(s, 12, 13)) * 3600 + Num(SubSeq(s, 15, 16)) * 60 + Num(SubSeq(s, 18, 19)),
      Num(SubSeq(s, 21, 26))>>

TsLess(a, b) ==
    \/ a[1] < b[1]
    \/ a[1] = b[1] /\ a[2] < b[2]
    \/ a[1] = b[1] /\ a[2] = b[2] /\ a[3] < b[3]

TsLeq(a, b) == a = b \/ TsLess(a, b)

\* ts + pd.Timedelta(minutes=m), m of either sign
TsAddMinutes(ts, m) ==
    LET total == ts[2] + 60 * m
        carry == IF total >= 0 THEN total \div 86400
                 ELSE -((86399 - total) \div 86400)
    IN  <<ts[1] + carry, total - carry * 86400, ts[3]>>

\* pd.to_numeric(errors='coerce') of one string: an optionally signed run of
\* digits is its value, any other text is NaN (decimal and exponent forms are
\* not among the inputs modelled)
ToNumeric(s) ==
    LET neg  == s # "" /\ Ch(s, 1) = "-"
        body == IF s # "" /\ Ch(s, 1) \in {"-", "+"} THEN Tail(s) ELSE s
    IN  IF body # "" /\ AllIn(body, Digits)
        THEN Some(IF neg THEN -Num(body) ELSE Num(body))
        ELSE NaN

\* time_pattern = "Process time of the transaction\(ID=\d+\) is ([\d.-]+) msec"
TimeHead == "Process time of the transaction(ID="
TimeChars == Digits \cup {".", "-"}
TimeIdEnd(msg, i) == RunEnd(msg, i + Len(TimeHead), Digits)
TimeValEnd(msg, i) == RunEnd(msg, TimeIdEnd(msg, i) + 5, TimeChars)
TimeAt(msg, i) ==
    /\ StartsAt(msg, i, TimeHead)
    /\ TimeIdEnd(msg, i) > i + Len(TimeHead)
    /\ StartsAt(msg, TimeIdEnd(msg, i), ") is ")
    /\ TimeValEnd(msg, i) > TimeIdEnd(msg, i) + 5
    /\ StartsAt(msg, TimeValEnd(msg, i), " msec")

\* the leftmost match of time_pattern at or after i, 0 when there is none
TimeSearch(msg, i) ==
    LET at == {k \in i..Len(msg) : TimeAt(msg, k)}
    IN  IF at = {} THEN 0 ELSE First(at)

\* Series.str.extract(time_pattern) on one cell: the captured text or NaN
ExtractTime(cell) ==
    IF IsNull(cell) THEN NaN
    ELSE LET msg == Val(cell)
             i   == TimeSearch(msg, 1)
         IN  IF i = 0 THEN NaN
             ELSE Some(SubSeq(msg, TimeIdEnd(msg, i) + 5, TimeValEnd(msg, i) - 1))

\* float(text) is defined: an optional sign, digits with at most one point,
\* at least one digit
FloatOk(s) ==
    LET body == IF s # "" /\ Ch(s, 1) \in {"-", "+"} THEN Tail(s) ELSE s
        dots == {i \in 1..Len(body) : Ch(body, i) = "."}
    IN  /\ AllIn(body, Digits \cup {"."})
        /\ Cardinality(dots) <= 1
        /\ Len(body) > Cardinality(dots)

\* float(text) in thousandths of the unit (up to three decimals are modelled)
FloatMilli(s) ==
    LET neg  == Ch(s, 1) = "-"
        body == IF Ch(s, 1) \in {"-", "+"} THEN Tail(s) ELSE s
        dot  == RunEnd(body, 1, Digits)
        frac == SubSeq(SubSeq(body, dot + 1, Len(body)) \o "000", 1, 3)
        mag  == Num(SubSeq(body, 1, dot - 1)) * 1000 + Num(frac)
    IN  IF neg THEN -mag ELSE mag

\* .astype(float) on one extracted cell
AsFloat(cell) == IF IsNull(cell) THEN NaN ELSE Some(FloatMilli(Val(cell)))

\* KEY(?:' | >\s*)<A\[\d+\] \"(\w+)\"  and  KEY(?:' | >\s*)<A\[\d+\] \"(.*?)\":
\* where the part after KEY starts, where the digits end, where the capture ends
IdSepEnd(msg, a) ==
    IF StartsAt(msg, a, "' ") THEN a + 2
    ELSE IF StartsAt(msg, a, " >") THEN RunEnd(msg, a + 2, Whitespace)
    ELSE 0
IdDigitsEnd(msg, b) == RunEnd(msg, b + 3, Digits)
QuoteFrom(msg, i) ==
    LET at == {k \in i..Len(msg) : Ch(msg, k) = "\""}
    IN  IF at = {} THEN 0 ELSE First(at)
IdCaptureEnd(msg, v, wordOnly) ==
    IF wordOnly
    THEN LET e == RunEnd(msg, v, WordChars)
         IN  IF e > v /\ StartsAt(msg, e, "\"") THEN e ELSE 0
    ELSE QuoteFrom(msg, v)
\* the typed literal <A[n] "value" starts at b: the capture, or NaN
TypedLiteral(msg, b, wordOnly) ==
    IF b = 0 \/ ~StartsAt(msg, b, "<A[") THEN NaN
    ELSE LET d == IdDigitsEnd(msg, b)
         IN  IF d = b + 3 \/ ~StartsAt(msg, d, "] \"") THEN NaN
             ELSE LET e == IdCaptureEnd(msg, d + 3, wordOnly)
                  IN  IF e = 0 THEN NaN ELSE Some(SubSeq(msg, d + 3, e - 1))

\* the match of an identifier pattern that starts at i, or NaN
IdMatchAt(msg, i, key, sep, wordOnly) ==
    IF ~StartsAt(msg, i, key) THEN NaN
    ELSE TypedLiteral(msg,
                      IF sep THEN IdSepEnd(msg, i + Len(key)) ELSE i + Len(key),
                      wordOnly)

\* the leftmost match at or after i, or NaN
IdSearch(msg, i, key, sep, wordOnly) ==
    LET m  == AsTuple([k \in 1..Len(msg) |-> IdMatchAt(msg, k, key, sep, wordOnly)])
        at == {k \in i..Len(msg) : NotNull(m[k])}
    IN  IF at = {} THEN NaN ELSE m[First(at)]

\* Series.str.extract of an identifier pattern on one cell
ExtractId(cell, key, sep, wordOnly) ==
    IF IsNull(cell) THEN NaN ELSE IdSearch(Val(cell), 1, key, sep, wordOnly)

\* Series.str.extract(r"(LOCAL|REMOTE)") on one cell: the leftmost of the two
ControlAt(msg, i) == StartsAt(msg, i, "LOCAL") \/ StartsAt(msg, i, "REMOTE")
ControlSearch(msg, i) ==
    LET at == {k \in i..Len(msg) : ControlAt(msg, k)}
    IN  IF at = {} THEN 0 ELSE First(at)
ExtractControl(cell) ==
    IF IsNull(cell) THEN NaN
    ELSE LET i == ControlSearch(Val(cell), 1)
         IN  IF i = 0 THEN NaN
             ELSE IF StartsAt(Val(cell), i, "LOCAL") THEN Some("LOCAL")
             ELSE Some("REMOTE")

-----------------------------------------------------------------------------
(* clean_and_enrich_data on a DataFrame                                    *)

\* df['timestamp'] = pd.to_datetime(df['timestamp'])
ConvertTimestamp(d) ==
    LET conv(cell) == Some(ToDatetime(Val(cell)))
    IN  SetCol(d, "timestamp", AsTuple([i \in DOMAIN d.rows |-> conv(d.rows[i].c["timestamp"])]))

\* df['TransactionID'] = pd.to_numeric(df['TransactionID'], errors='coerce')
ConvertTransactionID(d) ==
    IF "TransactionID" \notin d.cols THEN d
    ELSE LET conv(cell) == IF IsNull(cell) THEN NaN ELSE ToNumeric(Val(cell))
         IN  SetCol(d, "TransactionID", AsTuple([i \in DOMAIN d.rows |-> conv(d.rows[i].c["TransactionID"])]))

\* cols_to_fill
ColsToFill == {"OperatorID", "MagazineID", "LotID", "PortID", "SourcePortID",
               "DestPortID"}

\* the pattern of each extracted identifier column: its key, whether the
\* (?:' | >\s*) separator follows the key, whether the capture is \w+
IdPattern ==
    [OperatorID   |-> [key |-> "OPERATORID", sep |-> TRUE,  word |-> TRUE],
     MagazineID   |-> [key |-> "MAGAZINEID", sep |-> TRUE,  word |-> TRUE],
     LotID        |-> [key |-> "LOTID",      sep |-> TRUE,  word |-> FALSE],
     PanelID      |-> [key |-> "PanelID",    sep |-> FALSE, word |-> FALSE],
     PortID       |-> [key |-> "PORTID",     sep |-> TRUE,  word |-> TRUE],
     SourcePortID |-> [key |-> "SRCPORTID",  sep |-> TRUE,  word |-> TRUE],
     DestPortID   |-> [key |-> "DESTPORTID", sep |-> TRUE,  word |-> TRUE]]

\* the value df[col] gets from str.extract, before any fill
RawId(d, col) ==
    LET p == IdPattern[col]
        ext(cell) == ExtractId(cell, p.key, p.sep, p.word)
    IN  AsTuple([i \in DOMAIN d.rows |-> ext(d.rows[i].c["Message"])])

\* .astype(float) raises ValueError on a capture that is no number
EnrichRaises(d) ==
    /\ "Message" \in d.cols
    /\ \E i \in DOMAIN d.rows :
          LET t == ExtractTime(d.rows[i].c["Message"])
          IN  NotNull(t) /\ ~FloatOk(Val(t))

\* the block under "if 'Message' in df.columns": ProcessTime_ms, the seven
\* identifier columns, and the forward fill of the six cols_to_fill
ExtractFromMessage(d) ==
    IF "Message" \notin d.cols THEN d
    ELSE LET time(cell) == AsFloat(ExtractTime(cell))
             new  == DOMAIN IdPattern \cup {"ProcessTime_ms"}
             ids  == AsTable([k \in DOMAIN IdPattern |->
                        IF k \in ColsToFill THEN FFill(RawId(d, k))
                        ELSE RawId(d, k)])
             cell(i, k) ==
                 IF k = "ProcessTime_ms" THEN time(d.rows[i].c["Message"])
                 ELSE IF k \in DOMAIN IdPattern THEN ids[k][i]
                 ELSE d.rows[i].c[k]
         IN  [cols |-> d.cols \cup new,
              rows |-> AsTuple([i \in DOMAIN d.rows |->
                          [idx |-> d.rows[i].idx,
                           c   |-> AsTable([k \in d.cols \cup new |-> cell(i, k)])]])]

\* the order of sort_values(by=['TransactionID', 'timestamp']): NaN ids last
TidTsBefore(a, b) ==
    LET ta == a.c["TransactionID"]
        tb == b.c["TransactionID"]
    IN  \/ NotNull(ta) /\ IsNull(tb)
        \/ NotNull(ta) /\ NotNull(tb) /\ Val(ta) < Val(tb)
        \/ /\ ta = tb
           /\ TsLess(Val(a.c["timestamp"]), Val(b.c["timestamp"]))

\* x put into the sorted rows after every row that is not after it
InsertByTidTs(sorted, x) ==
    LET later == {k \in DOMAIN sorted : TidTsBefore(x, sorted[k])}
        at    == IF later = {} THEN Len(sorted) + 1
                 ELSE CHOOSE k \in later : \A j \in later : k <= j
    IN  SubSeq(sorted, 1, at - 1) \o <<x>> \o SubSeq(sorted, at, Len(sorted))

\* sort_values on two keys is a lexsort: stable
RECURSIVE SortByTidTs(_)
SortByTidTs(rows) ==
    IF rows = <<>> THEN <<>>
    ELSE InsertByTidTs(SortByTidTs(SubSeq(rows, 1, Len(rows) - 1)),
                       rows[Len(rows)])

\* groupby('TransactionID')['MessageName'].ffill(): within the rows of one id
\* each null takes the nearest non-null before it; a row whose id is NaN
\* belongs to no group and gets NaN
GroupFFill(d) ==
    AsTuple([i \in DOMAIN d.rows |->
        LET tid  == d.rows[i].c["TransactionID"]
            same == {j \in 1..i : /\ d.rows[j].c["TransactionID"] = tid
                                  /\ NotNull(d.rows[j].c["MessageName"])}
        IN  IF IsNull(tid) \/ same = {} THEN NaN
            ELSE d.rows[CHOOSE j \in same : \A k \in same : k <= j].c["MessageName"]])

\* the propagation with the trailing bfill left out
PropagatedNames_NoBFill(d) == GroupFFill(d)

\* df.groupby('TransactionID')['MessageName'].ffill().bfill(): the bfill is a
\* Series.bfill over the whole column
PropagatedNames(d) == BFill(GroupFFill(d))

\* the block under "if 'TransactionID' in df.columns and 'MessageName' in
\* df.columns": the sort and the propagation of MessageName
PropagateMessageName(d) ==
    IF ~({"TransactionID", "MessageName"} \subseteq d.cols) THEN d
    ELSE LET sorted == [cols |-> d.cols, rows |-> SortByTidTs(d.rows)]
         IN  SetCol(sorted, "MessageName", PropagatedNames(sorted))

\* the block "Track Machine Control State"
TrackControlState(d) ==
    IF "Message" \notin d.cols THEN d
    ELSE LET change == AsTuple([i \in DOMAIN d.rows |-> ExtractControl(d.rows[i].c["Message"])])
         IN  SetCol(SetCol(d, "ControlStateChange", change),
                    "ControlState", FFill(change))

clean_and_enrich_data(d) ==
    TrackControlState(
        PropagateMessageName(
            ExtractFromMessage(ConvertTransactionID(ConvertTimestamp(d)))))

\* what parse_log_file returns once parsed_data is built
FrameOf(parsed) ==
    IF parsed = <<>> THEN EmptyFrame
    ELSE clean_and_enrich_data(DataFrame(parsed))

\* what parse_log_file returns for the lines ls
parse_log_file(ls) == FrameOf(ParsedData(ls))

\* parse_log_file raises instead of returning
RaisesOn(parsed) == parsed # <<>> /\ EnrichRaises(DataFrame(parsed))

-----------------------------------------------------------------------------
(* The analysers: functions of the enriched DataFrame                      *)

\* Python's None, and a returned value v, in the encoding of cells
None == <<>>

\* df[mask]: the rows whose position is in keep, in order
RECURSIVE SelectRows(_, _)
SelectRows(rows, keep) ==
    IF rows = <<>> THEN <<>>
    ELSE SelectRows(SubSeq(rows, 1, Len(rows) - 1), keep)
           \o (IF Len(rows) \in keep THEN <<rows[Len(rows)]>> ELSE <<>>)

\* Series.str.contains(lit, na=False) and its case=False form on one cell
CellContains(cell, lit) == NotNull(cell) /\ Contains(Val(cell), lit)
CellContainsNoCase(cell, lit) == NotNull(cell) /\ ContainsNoCase(Val(cell), lit)

RECURSIVE SortedSeq(_)
\* sorted(list(S)) for a set of numbers
SortedSeq(S) ==
    IF S = {} THEN <<>>
    ELSE LET m == CHOOSE x \in S : \A y \in S : x <= y
         IN  <<m>> \o SortedSeq(S \ {m})

\* every order sort_values(by='timestamp') can leave the rows in: the default
\* kind, quicksort, is not stable, so rows of equal timestamp come in any order
RECURSIVE TsOrderings(_, _)
TsOrderings(rows, S) ==
    IF S = {} THEN {<<>>}
    ELSE LET first == {i \in S : \A j \in S :
                          ~TsLess(Val(rows[j].c["timestamp"]),
                                  Val(rows[i].c["timestamp"]))}
         IN  UNION {{<<rows[i]>> \o rest : rest \in TsOrderings(rows, S \ {i})}
                    : i \in first}

SortedByTimestamp(rows) == TsOrderings(rows, DOMAIN rows)

LifecycleError == "Lifecycle analysis requires 'Message' and 'TransactionID' columns."

\* the ids of the rows whose Message contains lit:
\* set(df[df['Message'].str.contains(lit, na=False)]['TransactionID'].dropna().unique())
IdsWhere(d, lit) ==
    {Val(d.rows[i].c["TransactionID"]) :
        i \in {j \in DOMAIN d.rows : /\ CellContains(d.rows[j].c["Message"], lit)
                                     /\ NotNull(d.rows[j].c["TransactionID"])}}

\* the analysis with the set difference taken the other way round
analyze_transaction_lifecycle_Swapped(d) ==
    IF ~({"Message", "TransactionID"} \subseteq d.cols)
    THEN [error |-> LifecycleError]
    ELSE LET added_ids    == IdsWhere(d, "added to")
             deleted_ids  == IdsWhere(d, "deleted from")
             orphaned_ids == deleted_ids \ added_ids
         IN  [initiated      |-> Cardinality(added_ids),
              completed      |-> Cardinality(deleted_ids),
              orphaned_count |-> Cardinality(orphaned_ids),
              orphaned_ids   |-> SortedSeq(orphaned_ids)]

analyze_transaction_lifecycle(d) ==
    IF ~({"Message", "TransactionID"} \subseteq d.cols)
    THEN [error |-> LifecycleError]
    ELSE LET added_ids    == IdsWhere(d, "added to")
             deleted_ids  == IdsWhere(d, "deleted from")
             orphaned_ids == added_ids \ deleted_ids
         IN  [initiated      |-> Cardinality(added_ids),
              completed      |-> Cardinality(deleted_ids),
              orphaned_count |-> Cardinality(orphaned_ids),
              orphaned_ids   |-> SortedSeq(orphaned_ids)]

\* perf_df = df.dropna(subset=['ProcessTime_ms', 'MessageName']): row positions
PerfRows(d) ==
    {i \in DOMAIN d.rows : /\ NotNull(d.rows[i].c["ProcessTime_ms"])
                           /\ NotNull(d.rows[i].c["MessageName"])}

\* the positions of the perf_df rows of group name
GroupRows(d, name) ==
    {i \in PerfRows(d) : Val(d.rows[i].c["MessageName"]) = name}

\* the ProcessTime_ms values of the rows at positions S, ascending
RECURSIVE SortedTimes(_, _)
SortedTimes(d, S) ==
    IF S = {} THEN <<>>
    ELSE LET i == CHOOSE x \in S : \A y \in S :
                     Val(d.rows[x].c["ProcessTime_ms"]) <= Val(d.rows[y].c["ProcessTime_ms"])
         IN  <<Val(d.rows[i].c["ProcessTime_ms"])>> \o SortedTimes(d, S \ {i})

\* four times Series.quantile(k/4) of the ascending values v (linear
\* interpolation between the two nearest ranks)
Quantile4(v, k) ==
    LET h  == (Len(v) - 1) * k
        lo == h \div 4
        r  == h % 4
    IN  IF r = 0 THEN 4 * v[lo + 1]
        ELSE (4 - r) * v[lo + 1] + r * v[lo + 2]

\* eight times upper_bound = q3 + 1.5 * (q3 - q1) of the group's values
UpperBound8(v) ==
    LET q1 == Quantile4(v, 1)
        q3 == Quantile4(v, 3)
    IN  2 * q3 + 3 * (q3 - q1)

\* the selection with a value on the bound taken too
AnomalyPositions_Inclusive(d) ==
    {i \in PerfRows(d) :
        8 * Val(d.rows[i].c["ProcessTime_ms"])
          >= UpperBound8(SortedTimes(d, GroupRows(d, Val(d.rows[i].c["MessageName"]))))}

\* group[group['ProcessTime_ms'] > upper_bound] over all groups: row positions
AnomalyPositions(d) ==
    {i \in PerfRows(d) :
        8 * Val(d.rows[i].c["ProcessTime_ms"])
          > UpperBound8(SortedTimes(d, GroupRows(d, Val(d.rows[i].c["MessageName"]))))}

\* the DataFrames detect_performance_anomalies can return (rows sorted by
\* timestamp); pd.DataFrame() when a column is missing or nothing qualifies
detect_performance_anomalies(d) ==
    IF ~({"ProcessTime_ms", "MessageName"} \subseteq d.cols) THEN {EmptyFrame}
    ELSE IF AnomalyPositions(d) = {} THEN {EmptyFrame}
    ELSE {[cols |-> d.cols, rows |-> r] :
            r \in SortedByTimestamp(SelectRows(d.rows, AnomalyPositions(d)))}

\* groupby('MessageName')['ProcessTime_ms'].describe(), per group: count, min,
\* max, the sum (mean = sum / count) and four times each quartile; std and the
\* boxplot figure are not modelled.  (None, None) is None.
analyze_transaction_performance(d) ==
    IF ~({"ProcessTime_ms", "MessageName"} \subseteq d.cols) THEN None
    ELSE IF PerfRows(d) = {} THEN None
    ELSE LET names == {Val(d.rows[i].c["MessageName"]) : i \in PerfRows(d)}
             stats(n) ==
                 LET v == SortedTimes(d, GroupRows(d, n))
                     RECURSIVE Sum(_)
                     Sum(q) == IF q = <<>> THEN 0 ELSE Head(q) + Sum(Tail(q))
                 IN  [count |-> Len(v), min |-> v[1], max |-> v[Len(v)],
                      sum |-> Sum(v), q25x4 |-> Quantile4(v, 1),
                      q50x4 |-> Quantile4(v, 2), q75x4 |-> Quantile4(v, 3)]
         IN  Some([n \in names |-> stats(n)])

\* the rows, in order, without any row whose cells repeat an earlier row's:
\* drop_duplicates() compares the columns, not the index
RECURSIVE DropDuplicates(_)
DropDuplicates(rows) ==
    IF rows = <<>> THEN <<>>
    ELSE LET front == DropDuplicates(SubSeq(rows, 1, Len(rows) - 1))
             x     == rows[Len(rows)]
         IN  IF \E i \in DOMAIN front : front[i].c = x.c THEN front
             ELSE Append(front, x)

\* pd.concat([keyword_events, unknown_events, negative_time_events])
PotentialIssues(d) ==
    LET msg(i) == d.rows[i].c["Message"]
        keyword == {i \in DOMAIN d.rows :
                       \/ CellContainsNoCase(msg(i), "Alarm")
                       \/ CellContainsNoCase(msg(i), "fail")
                       \/ CellContainsNoCase(msg(i), "error")}
        unknown == {i \in DOMAIN d.rows : CellContainsNoCase(msg(i), "Unknown:")}
        negative == IF "ProcessTime_ms" \notin d.cols THEN {}
                    ELSE {i \in DOMAIN d.rows :
                            /\ NotNull(d.rows[i].c["ProcessTime_ms"])
                            /\ Val(d.rows[i].c["ProcessTime_ms"]) < 0}
    IN  SelectRows(d.rows, keyword) \o SelectRows(d.rows, unknown)
          \o SelectRows(d.rows, negative)

\* all_potential_issues['Message'].value_counts(): message -> frequency
IssueSummary(rows) ==
    LET msgs == {Val(rows[i].c["Message"]) :
                    i \in {j \in DOMAIN rows : NotNull(rows[j].c["Message"])}}
    IN  AsTable([m \in msgs |->
            Cardinality({i \in DOMAIN rows : rows[i].c["Message"] = Some(m)})])

\* what analyze_alarms can return: "KeyError" when df has no Message column,
\* None for (None, None), else the pair (issue_summary, all_potential_issues)
analyze_alarms(d) ==
    IF "Message" \notin d.cols THEN {[raised |-> "KeyError", value |-> None]}
    ELSE LET issues == DropDuplicates(PotentialIssues(d))
         IN  IF issues = <<>> THEN {[raised |-> "", value |-> None]}
             ELSE {[raised |-> "",
                    value  |-> Some([summary |-> IssueSummary(r),
                                     issues  |-> [cols |-> d.cols, rows |-> r]])]
                   : r \in SortedByTimestamp(issues)}

\* halt_threshold_minutes and window_minutes: the defaults
HaltThresholdMinutes == 5
WindowMinutes == 5

\* processing_keywords = "LOAD|UNLOAD|TRANSFER|PROCESS|MAPPING|DOCK"
ProcessingKeywords == {"LOAD", "UNLOAD", "TRANSFER", "PROCESS", "MAPPING", "DOCK"}

\* processing_events: positions of the rows of df whose Message matches
ProcessingEvents(d) ==
    {i \in DOMAIN d.rows :
        \E k \in ProcessingKeywords : CellContainsNoCase(d.rows[i].c["Message"], k)}

\* the test with the window closed at the issue's own instant
NoActivityAfter_Closed(d, issue_time) ==
    LET window_end_time == TsAddMinutes(issue_time, HaltThresholdMinutes)
    IN  ~\E i \in ProcessingEvents(d) :
            /\ TsLeq(issue_time, Val(d.rows[i].c["timestamp"]))
            /\ TsLeq(Val(d.rows[i].c["timestamp"]), window_end_time)

\* activity_after_issue is empty for the issue at issue_time
NoActivityAfter(d, issue_time) ==
    LET window_end_time == TsAddMinutes(issue_time, HaltThresholdMinutes)
    IN  ~\E i \in ProcessingEvents(d) :
            /\ TsLess(issue_time, Val(d.rows[i].c["timestamp"]))
            /\ TsLeq(Val(d.rows[i].c["timestamp"]), window_end_time)

\* find_halting_events(df, potential_issues): potential_issues is None or a
\* DataFrame; the result is a DataFrame, or KeyError when df has no Message
find_halting_events(d, potential_issues) ==
    IF potential_issues = None \/ Val(potential_issues).rows = <<>>
    THEN [raised |-> "", value |-> EmptyFrame]
    ELSE IF "Message" \notin d.cols THEN [raised |-> "KeyError", value |-> EmptyFrame]
    ELSE LET issues  == Val(potential_issues)
             halting == {i \in DOMAIN issues.rows :
                            NoActivityAfter(d, Val(issues.rows[i].c["timestamp"]))}
         IN  [raised |-> "",
              value  |-> IF halting = {} THEN EmptyFrame
                         ELSE [cols |-> issues.cols,
                               rows |-> SelectRows(issues.rows, halting)]]

\* key_identifiers
KeyIdentifiers == {"ControlState", "OperatorID", "MagazineID", "LotID", "PortID",
                   "SourcePortID", "DestPortID"}

\* f'Last Known {identifier}'
ContextKey(identifier) == "Last Known " \o identifier

\* state_before_event[identifier].dropna(): positions, in df order
KnownBefore(d, event_timestamp, identifier) ==
    {i \in DOMAIN d.rows : /\ TsLeq(Val(d.rows[i].c["timestamp"]), event_timestamp)
                           /\ NotNull(d.rows[i].c[identifier])}

\* get_context_around_event(df, event_timestamp): contextual_logs and context,
\* or KeyError when df has no timestamp column
get_context_around_event(d, event_timestamp) ==
    IF "timestamp" \notin d.cols
    THEN [raised |-> "KeyError", logs |-> <<>>, context |-> <<>>]
    ELSE LET start_time == TsAddMinutes(event_timestamp, -WindowMinutes)
             end_time   == TsAddMinutes(event_timestamp, WindowMinutes)
             inside == {i \in DOMAIN d.rows :
                          /\ TsLeq(start_time, Val(d.rows[i].c["timestamp"]))
                          /\ TsLeq(Val(d.rows[i].c["timestamp"]), end_time)}
             found == {k \in KeyIdentifiers \cap d.cols :
                          KnownBefore(d, event_timestamp, k) # {}}
             last(k) == CHOOSE i \in KnownBefore(d, event_timestamp, k) :
                           \A j \in KnownBefore(d, event_timestamp, k) : j <= i
         IN  [raised  |-> "",
              logs    |-> SelectRows(d.rows, inside),
              context |-> AsTable([key \in {ContextKey(k) : k \in found} |->
                             LET k == CHOOSE x \in found : ContextKey(x) = key
                             IN  Val(d.rows[last(k)].c[k])])]

-----------------------------------------------------------------------------
(* The program as a state machine: a log is loaded (lines) or a raw frame  *)
(* is given (df); it is parsed and enriched; then the analysers are called *)
(* on the enriched frame in any order, out holding the last call           *)

NoOut == [op |-> "none"]

\* the end of parse_log_file: the frame is returned, or the enrichment raises
Return(parsed) ==
    IF RaisesOn(parsed)
    THEN pc' = "raised" /\ df' = EmptyFrame
    ELSE pc' = "ready" /\ df' = FrameOf(parsed)

\* df = parse_log_file(uploaded_file)
ParseLogFile ==
    /\ pc = "loaded"
    /\ Return(ParsedData(lines))
    /\ UNCHANGED <<lines, out>>

\* df = clean_and_enrich_data(df) on a frame built by the caller
CleanAndEnrich ==
    /\ pc = "raw"
    /\ IF EnrichRaises(df)
       THEN pc' = "raised" /\ df' = EmptyFrame
       ELSE pc' = "ready" /\ df' = clean_and_enrich_data(df)
    /\ UNCHANGED <<lines, out>>

AnalyzeLifecycle ==
    /\ pc = "ready"
    /\ out' = [op |-> "analyze_transaction_lifecycle",
               value |-> analyze_transaction_lifecycle(df)]
    /\ UNCHANGED <<lines, df, pc>>

AnalyzePerformance ==
    /\ pc = "ready"
    /\ out' = [op |-> "analyze_transaction_performance",
               value |-> analyze_transaction_performance(df)]
    /\ UNCHANGED <<lines, df, pc>>

DetectAnomalies ==
    /\ pc = "ready"
    /\ \E r \in detect_performance_anomalies(df) :
          out' = [op |-> "detect_performance_anomalies", value |-> r]
    /\ UNCHANGED <<lines, df, pc>>

AnalyzeAlarms ==
    /\ pc = "ready"
    /\ \E r \in analyze_alarms(df) :
          out' = [op |-> "analyze_alarms", raised |-> r.raised, value |-> r.value]
    /\ UNCHANGED <<lines, df, pc>>

\* find_halting_events(df, alarm_events) on the issues analyze_alarms returned
FindHaltingEvents ==
    /\ pc = "ready"
    /\ out.op = "analyze_alarms"
    /\ out.raised = ""
    /\ LET issues == IF out.value = None THEN None ELSE Some(Val(out.value).issues)
           r      == find_halting_events(df, issues)
       IN  out' = [op |-> "find_halting_events", issues |-> issues,
                   raised |-> r.raised, value |-> r.value]
    /\ UNCHANGED <<lines, df, pc>>

\* get_context_around_event(df, t) at the timestamp t of a record
GetContext ==
    /\ pc = "ready"
    /\ \E i \in DOMAIN df.rows :
          LET t == Val(df.rows[i].c["timestamp"])
              r == get_context_around_event(df, t)
          IN  out' = [op |-> "get_context_around_event", at |-> t,
                      raised |-> r.raised, logs |-> r.logs, context |-> r.context]
    /\ UNCHANGED <<lines, df, pc>>

-----------------------------------------------------------------------------
(* Inputs                                                                  *)

\* the longest log file, in lines, and the longest frame given directly, in rows
MaxLines == 3
MaxRows == 3
\* the longest frame of the lifecycle audit, and of the anomaly detector
MaxAuditRows == 4
MaxTimedRows == 4
\* the most copies of one value in a timing group
MaxCopies == 20

SeqsUpTo(S, n) == UNION {[1..k -> S] : k \in 0..n}

Line(stamp, details) == stamp \o ",[EVENT]," \o details

\* the example of the specification: one transaction added, timed and deleted
ExampleAdded ==
    "2024/01/01 10:00:00.000000,[EVENT],TransactionID=7 MessageName=Load added to queue"
ExampleTimed ==
    "2024/01/01 10:00:05.000000,[EVENT],TransactionID=7 Process time of the transaction(ID=7) is 120.5 msec"
ExampleDeleted ==
    "2024/01/01 10:00:10.000000,[EVENT],TransactionID=7 deleted from queue"
ExampleDeletedNamed ==
    "2024/01/01 10:00:10.000000,[EVENT],TransactionID=7 MessageName=Load deleted from queue"

\* lines of a log: the example, the same events with the text under a Message
\* key, an alarm, and a line that is no log line
ExampleLines ==
    {ExampleAdded, ExampleTimed, ExampleDeleted, ExampleDeletedNamed,
     "2024/01/01 10:00:00.000000,[EVENT],TransactionID=7 MessageName=Load Message=added to queue",
     "2024/01/01 10:00:05.000000,[EVENT],TransactionID=7 Message=Process time of the transaction(ID=7) is 120.5 msec",
     "2024/01/01 10:00:07.000000,[ALARM],Message=\"Alarm 12 set\"",
     "# not a log line"}

\* two instants a minute apart
FillStamps == {"2024/01/01 10:00:00.000000", "2024/01/01 10:01:00.000000"}

\* records of transaction 1 with no name and with either of two names, a named
\* record of transaction 2, and a record of no transaction
FillDetails ==
    {"TransactionID=1", "TransactionID=1 MessageName=A", "TransactionID=1 MessageName=B",
     "TransactionID=2 MessageName=B", "Note=x"}

FillLines == {Line(t, d) : t \in FillStamps, d \in FillDetails}

\* messages that observe context fields, and messages that observe none
ContextDetails ==
    {"Message=LOCAL OPERATORID' <A[3] \"op1\"> MAGAZINEID >  <A[2] \"m1\"> LOTID' <A[4] \"lot 1\">",
     "Message=REMOTE SRCPORTID' <A[2] \"p1\"> DESTPORTID > <A[2] \"p2\"> OPERATORID' <A[3] \"op2\">",
     "Message=idle",
     "TransactionID=1 MessageName=A Message=idle",
     "TransactionID=2 MessageName=B Message=REMOTE PORTID' <A[2] \"p3\">"}

ContextLines == {Line(t, d) : t \in FillStamps, d \in ContextDetails}

\* an instant T, T + 1 microsecond, T + 5 minutes, T + 5 minutes + 1 microsecond
HaltStamps == {"2023/12/31 23:57:00.000000", "2023/12/31 23:57:00.000001",
               "2024/01/01 00:02:00.000000", "2024/01/01 00:02:00.000001"}

\* an issue, a processing event, and a record that is both
HaltMessages == {"Alarm 12 set", "Panel loaded to tool", "Unload failed"}

\* a processing event at each instant, an issue and a record that is both at
\* T and at T + 5 minutes
HaltEntries ==
    {[timestamp |-> t, Message |-> "Panel loaded to tool"] : t \in HaltStamps}
    \cup {[timestamp |-> t, Message |-> m] :
             t \in {"2023/12/31 23:57:00.000000", "2024/01/01 00:02:00.000000"},
             m \in HaltMessages \ {"Panel loaded to tool"}}

\* additions and deletions of three transactions, a record with no id and a
\* record with no message
AuditEntries ==
    {[timestamp |-> "2024/01/01 10:00:00.000000", TransactionID |-> id, Message |-> m] :
        id \in {"1", "2", "3"}, m \in {"Lot added to queue", "Lot deleted from queue"}}
    \cup {[timestamp |-> "2024/01/01 10:00:00.000000", Message |-> "Lot added to queue"],
          [timestamp |-> "2024/01/01 10:00:00.000000", TransactionID |-> "2"]}

Audit(id, m) ==
    [timestamp |-> "2024/01/01 10:00:00.000000", TransactionID |-> id, Message |-> m]

\* ids 1, 2, 3 added and ids 2, 3 deleted
AuditExample ==
    <<Audit("1", "Lot added to queue"), Audit("2", "Lot added to queue"),
      Audit("3", "Lot added to queue"), Audit("2", "Lot deleted from queue"),
      Audit("3", "Lot deleted from queue")>>

TimeMessage(v) == "Process time of the transaction(ID=7) is " \o v \o " msec"

Timed(n, v) ==
    [timestamp |-> "2024/01/01 10:00:00.000000", MessageName |-> n,
     Message |-> TimeMessage(v)]

\* timed records of group A (0, 0, 1, 5 has its largest value on the bound,
\* 0, 0, 5, 5 below it, 1, 1, 1, 5 above it), one of group B, one with no
\* name, one with no time
TimedEntries ==
    {Timed("A", v) : v \in {"0", "1", "5"}}
    \cup {Timed("B", "5"),
          [timestamp |-> "2024/01/01 10:00:00.000000", Message |-> TimeMessage("5")],
          [timestamp |-> "2024/01/01 10:01:00.000000", MessageName |-> "A",
           Message |-> "idle"]}

\* n records of value v, then one of value w, all of group A
Copies(n, v, w) ==
    AsTuple([i \in 1..(n + 1) |->
        [timestamp |-> "2024/01/01 10:00:00.000000", MessageName |-> "A",
         Message |-> TimeMessage(IF i <= n THEN v ELSE w)]])

\* a base value and the value 100 times larger
Outliers == {<<"1", "100">>, <<"2.5", "250">>}

-----------------------------------------------------------------------------
(* Specifications                                                          *)

InitLines(pool) ==
    /\ lines \in SeqsUpTo(pool, MaxLines)
    /\ df = EmptyFrame
    /\ pc = "loaded"
    /\ out = NoOut

InitFrame(frames) ==
    /\ lines = <<>>
    /\ df \in frames
    /\ pc = "raw"
    /\ out = NoOut

\* the application: a log is parsed, then analysed
Init == InitLines(ExampleLines)

Next ==
    \/ ParseLogFile
    \/ AnalyzeLifecycle
    \/ AnalyzePerformance
    \/ AnalyzeAlarms
    \/ GetContext

Spec == Init /\ [][Next]_vars

\* logs of transactions with and without names, parsed and grouped by name
InitFill == InitLines(FillLines)
NextFill == ParseLogFile \/ AnalyzePerformance
SpecFill == InitFill /\ [][NextFill]_vars

InitContext == InitLines(ContextLines)
SpecContext == InitContext /\ [][Next]_vars

\* the alarm and halt correlator on frames of issues and processing events
InitHalt == InitFrame({DataFrame(e) : e \in SeqsUpTo(HaltEntries, MaxRows) \ {<<>>}})
NextHalt == CleanAndEnrich \/ AnalyzeAlarms \/ FindHaltingEvents
SpecHalt == InitHalt /\ [][NextHalt]_vars

\* the lifecycle audit on frames of additions and deletions
InitAudit ==
    InitFrame({DataFrame(e) :
                 e \in (SeqsUpTo(AuditEntries, MaxAuditRows) \ {<<>>}) \cup {AuditExample}})
NextAudit == CleanAndEnrich \/ AnalyzeLifecycle
SpecAudit == InitAudit /\ [][NextAudit]_vars

\* the anomaly detector on frames of timed records
InitTimed ==
    InitFrame({DataFrame(e) : e \in SeqsUpTo(TimedEntries, MaxTimedRows) \ {<<>>}}
              \cup {DataFrame(Copies(n, o[1], o[2])) : n \in 1..MaxCopies, o \in Outliers})
NextTimed == CleanAndEnrich \/ DetectAnomalies
SpecTimed == InitTimed /\ [][NextTimed]_vars

-----------------------------------------------------------------------------
(* Properties of the enriched frame                                        *)

Ready == pc = "ready"
Rows == DOMAIN df.rows
Ts(i) == Val(df.rows[i].c["timestamp"])
Grouped == {"TransactionID", "MessageName"} \subseteq df.cols
Tid(i) == df.rows[i].c["TransactionID"]
Name(i) == df.rows[i].c["MessageName"]

\* the MessageName each row's line carried, NaN when it carried none
RawNameOf(parsed) ==
    AsTuple([i \in Rows |->
        LET entry == parsed[df.rows[i].idx + 1]
        IN  IF "MessageName" \in DOMAIN entry THEN Some(entry["MessageName"]) ELSE NaN])
RawName == RawNameOf(ParsedData(lines))

\* the names the lines of the transaction of row i carried, raw the names of
\* all rows
NamesOf(raw, i) == {raw[j] : j \in {k \in Rows : Tid(k) = Tid(i)}} \ {NaN}

C3_GroupUniform ==
    Ready /\ Grouped =>
        \A i, j \in Rows : NotNull(Tid(i)) /\ Tid(i) = Tid(j) => Name(i) = Name(j)

\* C3, amended: the records of one transaction all have the same MessageName
\* after enrichment exactly when its lines carried at most one distinct name;
\* a transaction whose lines carried two names keeps both
C3_UniformUnlessTwoNames ==
    Ready /\ Grouped =>
        \A i \in Rows :
            NotNull(Tid(i)) =>
                ((\A j \in Rows : Tid(j) = Tid(i) => Name(j) = Name(i))
                    <=> Cardinality(NamesOf(RawName, i)) <= 1)

\* a record whose line carried no name has been given the one name another
\* line of its transaction carried
C3_Filled ==
    /\ Ready /\ Grouped
    /\ \E i, j \in Rows :
          /\ i # j /\ NotNull(Tid(i)) /\ Tid(i) = Tid(j)
          /\ IsNull(RawName[i]) /\ NotNull(RawName[j])
          /\ Name(i) = RawName[j]
          /\ NamesOf(RawName, i) = {RawName[j]}

\* C10: after enrichment the MessageName of a record of a transaction is null
\* or a name a line of that same transaction carried (so it is null on every
\* record of a transaction none of whose lines carried a name)
C10_FillStaysInGroup ==
    Ready /\ Grouped =>
        \A i \in Rows :
            NotNull(Tid(i)) => IsNull(Name(i)) \/ Name(i) \in NamesOf(RawName, i)

\* row i comes before row j in timestamp order, lines of equal timestamp in
\* line order
Before(i, j) ==
    \/ TsLess(Ts(i), Ts(j))
    \/ Ts(i) = Ts(j) /\ df.rows[i].idx < df.rows[j].idx

\* what the Message of row i shows of context field F, before any fill
Observed(F, i) ==
    IF F = "ControlState" THEN ExtractControl(df.rows[i].c["Message"])
    ELSE ExtractId(df.rows[i].c["Message"], IdPattern[F].key, IdPattern[F].sep,
                   IdPattern[F].word)

\* C2: in timestamp order, a record that shows nothing of a context field has
\* the enriched value of the nearest earlier record that has one, and the
\* records before the first observation of the field have none
C2_CarryForward ==
    Ready /\ "Message" \in df.cols =>
        \A F \in KeyIdentifiers :
            /\ \A i, j \in Rows :
                  (/\ Before(i, j)
                   /\ NotNull(df.rows[i].c[F])
                   /\ IsNull(Observed(F, j))
                   /\ \A k \in Rows :
                         Before(i, k) /\ Before(k, j) => IsNull(Observed(F, k)))
                  => df.rows[j].c[F] = df.rows[i].c[F]
            /\ \A j \in Rows :
                  (\A i \in Rows : i = j \/ Before(i, j) => IsNull(Observed(F, i)))
                  => IsNull(df.rows[j].c[F])

\* the rows at or before the instant t that have a value of field F
KnownAt(F, t) ==
    IF F \notin df.cols THEN {}
    ELSE {i \in Rows : TsLeq(Ts(i), t) /\ NotNull(df.rows[i].c[F])}

\* C5: the context reported at a reference instant holds, for each context
\* field, the value of a record of greatest timestamp among those at or before
\* the instant that have the field, and no entry for a field none of them has
C5_LatestKnown ==
    Ready /\ out.op = "get_context_around_event" /\ out.raised = "" =>
        \A F \in KeyIdentifiers :
            IF KnownAt(F, out.at) = {} THEN ContextKey(F) \notin DOMAIN out.context
            ELSE /\ ContextKey(F) \in DOMAIN out.context
                 /\ \E i \in KnownAt(F, out.at) :
                       /\ \A j \in KnownAt(F, out.at) : TsLeq(Ts(j), Ts(i))
                       /\ out.context[ContextKey(F)] = Val(df.rows[i].c[F])

\* a record of df is an issue: its Message holds alarm, fail, error or
\* Unknown: in any case, or its ProcessTime_ms is negative
IsIssue(i) ==
    \/ /\ "Message" \in df.cols
       /\ NotNull(df.rows[i].c["Message"])
       /\ \E w \in {"alarm", "fail", "error", "unknown:"} :
             Contains(Lower(Val(df.rows[i].c["Message"])), w)
    \/ /\ "ProcessTime_ms" \in df.cols
       /\ NotNull(df.rows[i].c["ProcessTime_ms"])
       /\ Val(df.rows[i].c["ProcessTime_ms"]) < 0

\* C8: analyze_alarms never fails; it returns (None, None) exactly when no
\* record is an issue (so on an empty frame and on one with no Message), and
\* a frequency table with a non-empty issue list otherwise
C8_AbsentNotFailing ==
    Ready /\ out.op = "analyze_alarms" =>
        /\ out.raised = ""
        /\ out.value = None <=> ~\E i \in Rows : IsIssue(i)
        /\ out.value # None =>
              /\ Val(out.value).issues.rows # <<>>
              /\ DOMAIN Val(out.value).summary # {}

\* C9: on the three lines of the example the lifecycle analysis reports one
\* transaction initiated, one completed and none orphaned, and the performance
\* analysis reports the group "Load" alone, with one sample of 120.5
C9_Example ==
    /\ Ready
    /\ lines \in {<<ExampleAdded, ExampleTimed, ExampleDeleted>>,
                  <<ExampleAdded, ExampleTimed, ExampleDeletedNamed>>}
    => /\ out.op = "analyze_transaction_lifecycle" =>
             out.value = [initiated |-> 1, completed |-> 1, orphaned_count |-> 0,
                          orphaned_ids |-> <<>>]
       /\ out.op = "analyze_transaction_performance" =>
             /\ out.value # None
             /\ DOMAIN Val(out.value) = {"Load"}
             /\ Val(out.value)["Load"].count = 1
             /\ Val(out.value)["Load"].min = 120500
             /\ Val(out.value)["Load"].max = 120500

-----------------------------------------------------------------------------
(* Properties of the analysers                                             *)

\* whole seconds, and the microseconds beside them, from instant a to instant b
SecondsBetween(a, b) == (b[1] - a[1]) * 86400 + (b[2] - a[2])
MicrosBetween(a, b) == b[3] - a[3]

\* b is in the window (a, a + 5 minutes]
InWindow(a, b) ==
    /\ SecondsBetween(a, b) > 0 \/ (SecondsBetween(a, b) = 0 /\ MicrosBetween(a, b) > 0)
    /\ SecondsBetween(a, b) < 300 \/ (SecondsBetween(a, b) = 300 /\ MicrosBetween(a, b) <= 0)

\* row i of df is a processing record
IsProcessing(i) ==
    /\ NotNull(df.rows[i].c["Message"])
    /\ \E w \in {"load", "unload", "transfer", "process", "mapping", "dock"} :
          Contains(Lower(Val(df.rows[i].c["Message"])), w)

\* the issue list find_halting_events was given
IssueRows == IF out.issues = None THEN <<>> ELSE Val(out.issues).rows

\* the issues with no processing record of df in their window
Halting ==
    {k \in DOMAIN IssueRows :
        ~\E i \in Rows :
            IsProcessing(i) /\ InWindow(Val(IssueRows[k].c["timestamp"]), Ts(i))}

\* C4: find_halting_events returns exactly the issues with no processing
\* record at an instant t, T < t <= T + 5 minutes, of their own instant T,
\* each judged alone, in the order of the issue list
C4_HaltWindow ==
    Ready /\ out.op = "find_halting_events" =>
        /\ out.raised = ""
        /\ Len(out.value.rows) = Cardinality(Halting)
        /\ \A n \in DOMAIN out.value.rows :
              \E k \in Halting :
                  /\ Cardinality({j \in Halting : j <= k}) = n
                  /\ out.value.rows[n] = IssueRows[k]

\* of two issues the first has a processing record exactly 5 minutes after it
\* and is dropped, the second has one at its own instant and is returned
C4_BothEnds ==
    /\ Ready /\ out.op = "find_halting_events"
    /\ Len(IssueRows) = 2
    /\ out.value.rows = <<IssueRows[2]>>
    /\ \E i \in Rows :
          /\ IsProcessing(i)
          /\ Ts(i) = TsAddMinutes(Val(IssueRows[1].c["timestamp"]), 5)
          /\ Ts(i) = Val(IssueRows[2].c["timestamp"])

\* the ids of the records of df whose Message contains lit
IdsOf(lit) ==
    {Val(Tid(i)) :
        i \in {j \in Rows : /\ NotNull(Tid(j))
                             /\ NotNull(df.rows[j].c["Message"])
                             /\ Contains(Val(df.rows[j].c["Message"]), lit)}}

\* C6: with A the ids added and D the ids deleted, the lifecycle analysis
\* reports |A|, |D|, the ids of A \ D in strictly ascending order and their
\* number; without a Message or a TransactionID column it reports the error
C6_Lifecycle ==
    Ready /\ out.op = "analyze_transaction_lifecycle" =>
        IF {"Message", "TransactionID"} \subseteq df.cols
        THEN LET A == IdsOf("added to")
                 D == IdsOf("deleted from")
                 ids == out.value.orphaned_ids
             IN  /\ DOMAIN out.value =
                       {"initiated", "completed", "orphaned_count", "orphaned_ids"}
                 /\ out.value.initiated = Cardinality(A)
                 /\ out.value.completed = Cardinality(D)
                 /\ out.value.orphaned_count = Cardinality(A \ D)
                 /\ {ids[n] : n \in DOMAIN ids} = A \ D
                 /\ \A m, n \in DOMAIN ids : m < n => ids[m] < ids[n]
        ELSE out.value = [error |-> LifecycleError]

\* ids 1, 2, 3 added and 2, 3 deleted: the orphan is 1
C6_OrphanOne ==
    /\ Ready /\ out.op = "analyze_transaction_lifecycle"
    /\ {"Message", "TransactionID"} \subseteq df.cols
    /\ IdsOf("added to") = {1, 2, 3}
    /\ IdsOf("deleted from") = {2, 3}
    /\ out.value = [initiated |-> 3, completed |-> 2, orphaned_count |-> 1,
                    orphaned_ids |-> <<1>>]

\* row i has a process time and a name; its time; the rows of its group
HasTime(i) == NotNull(df.rows[i].c["ProcessTime_ms"]) /\ NotNull(Name(i))
Time(i) == Val(df.rows[i].c["ProcessTime_ms"])
GroupOf(i) == {j \in Rows : HasTime(j) /\ Name(j) = Name(i)}

\* the time of rank m, from 0, among the rows G
Ranked(G, m) ==
    CHOOSE x \in {Time(j) : j \in G} :
        /\ Cardinality({j \in G : Time(j) < x}) <= m
        /\ m < Cardinality({j \in G : Time(j) <= x})

\* four times the quantile k/4 of the times of G, interpolated linearly
\* between the ranks around (|G| - 1) * k / 4
Quartile4(G, k) ==
    LET h == (Cardinality(G) - 1) * k
    IN  IF h % 4 = 0 THEN 4 * Ranked(G, h \div 4)
        ELSE 4 * Ranked(G, h \div 4)
               + (h % 4) * (Ranked(G, h \div 4 + 1) - Ranked(G, h \div 4))

\* the time of row i is above Q3 + 1.5 * (Q3 - Q1) of its group (times 8)
AboveBound(i) ==
    8 * Time(i) > 2 * Quartile4(GroupOf(i), 3)
                    + 3 * (Quartile4(GroupOf(i), 3) - Quartile4(GroupOf(i), 1))

\* C7: detect_performance_anomalies returns exactly the records with a time
\* and a name whose time is strictly above Q3 + 1.5 * (Q3 - Q1) of their group
C7_StrictlyAboveBound ==
    Ready /\ out.op = "detect_performance_anomalies" =>
        LET flagged == IF {"ProcessTime_ms", "MessageName"} \subseteq df.cols
                       THEN {i \in Rows : HasTime(i) /\ AboveBound(i)}
                       ELSE {}
        IN  /\ Len(out.value.rows) = Cardinality(flagged)
            /\ {out.value.rows[n] : n \in DOMAIN out.value.rows}
                  = {df.rows[i] : i \in flagged}

\* of 20 equal positive times and one 100 times larger, only the last is
\* returned
C7_OutlierOnly ==
    /\ Ready /\ out.op = "detect_performance_anomalies"
    /\ Len(df.rows) = 21
    /\ \A i \in 1..20 : HasTime(i) /\ Time(i) = Time(1) /\ Name(i) = Name(21)
    /\ Time(1) > 0 /\ HasTime(21) /\ Time(21) = 100 * Time(1)
    /\ out.value.rows = <<df.rows[21]>>

=============================================================================
